---- MODULE Spec2Model ----
(***************************************************************************)
(* A model of Permutation.js: the Permutation constructor and its          *)
(* validation, the lazy cycle decomposition, composition, equality, and    *)
(* the string codec (getChar / parseChar, toString / fromString,           *)
(* toCycleString / fromCycleString).                                       *)
(*                                                                         *)
(* JavaScript values are modelled as integers plus the value Undefined.    *)
(* A character is modelled by its character code, a string by the         *)
(* sequence of its character codes, an array by a sequence (array index i  *)
(* is sequence position i + 1).                                            *)
(***************************************************************************)
EXTENDS Integers, Sequences, FiniteSets

\* ------------------------------------------------------------------------
\* Bounds of the checked inputs
\* ------------------------------------------------------------------------
MaxLen == 4
MaxPairLen == 3
MaxEdgeLen == 2
MaxTail == 2
HighBase == 10
MaxGroups == 2
MaxFlatLen == 3
MaxN == 3
MaxProbe == 12

\* ------------------------------------------------------------------------
\* Program constants
\* ------------------------------------------------------------------------
Undefined == -1000

C0 == 48
C9 == 57
CA == 65
CZ == 90
LParen == 40
RParen == 41

PERMUTATION_INDEX == 0
MAX_ALLOWED_PERMUTATION_INDEX == 35

\* ------------------------------------------------------------------------
\* JavaScript primitives the code relies on
\* ------------------------------------------------------------------------
\* a > b, a < b, a >= b, a <= b: false as soon as one side is undefined (NaN)
JsGT(a, b) == a # Undefined /\ b # Undefined /\ a > b
JsLT(a, b) == a # Undefined /\ b # Undefined /\ a < b
JsGE(a, b) == a # Undefined /\ b # Undefined /\ a >= b
JsLE(a, b) == a # Undefined /\ b # Undefined /\ a <= b

\* String.fromCharCode(k): the code is taken modulo 2^16
FromCharCode(k) == k % 65536

\* String.prototype.indexOf(ch, from), 0-based, -1 when absent.  The strings
\* of the model hold no lower-case letter, so indexOf(undefined), which
\* searches for the text "undefined", finds nothing.
RECURSIVE IndexOfFrom(_, _, _)
IndexOfFrom(s, ch, from) ==
  IF ch = Undefined \/ from >= Len(s) THEN -1
  ELSE IF s[from + 1] = ch THEN from
  ELSE IndexOfFrom(s, ch, from + 1)

IndexOf(s, ch) == IndexOfFrom(s, ch, 0)

\* String.prototype.substring(i, j) for 0 <= i <= j <= length
Substring(s, i, j) == SubSeq(s, i + 1, j)

\* The decimal text of a number, as Array.prototype.join writes an element
RECURSIVE Digits(_)
Digits(k) == IF k < 10 THEN <<C0 + k>> ELSE Digits(k \div 10) \o <<C0 + (k % 10)>>

\* (the numbers joined are array indices, never negative)
NumberToString(k) == IF k = Undefined THEN <<>> ELSE Digits(k)

\* Array.prototype.join('') over an array of strings
RECURSIVE JoinStrings(_)
JoinStrings(parts) ==
  IF parts = <<>> THEN <<>> ELSE Head(parts) \o JoinStrings(Tail(parts))

\* Array.prototype.join('') over an array of numbers
JoinNumbers(arr) == JoinStrings([k \in 1..Len(arr) |-> NumberToString(arr[k])])

\* Array.prototype.join('') over an array of characters (undefined joins as "")
JoinChars(arr) ==
  JoinStrings([k \in 1..Len(arr) |-> IF arr[k] = Undefined THEN <<>> ELSE <<arr[k]>>])

\* ------------------------------------------------------------------------
\* Array utilities and validation
\* ------------------------------------------------------------------------
HasDuplicates(arr) ==
  \E i, j \in 1..Len(arr) : i < j /\ arr[i] = arr[j]

\* validation without the test against PERMUTATION_INDEX
ValidatePermutationArrayNoLowerTest(arr) ==
  /\ ~HasDuplicates(arr)
  /\ \A i \in 1..Len(arr) : ~JsGT(arr[i], MAX_ALLOWED_PERMUTATION_INDEX)

ValidatePermutationArray(arr) ==
  /\ ~HasDuplicates(arr)
  /\ \A i \in 1..Len(arr) :
        ~(JsGT(arr[i], MAX_ALLOWED_PERMUTATION_INDEX) \/ JsLT(arr[i], PERMUTATION_INDEX))

\* ------------------------------------------------------------------------
\* Permutation objects
\* ------------------------------------------------------------------------
\* An object made by `new Permutation(arr)`.  When validation fails the
\* constructor returns early: the object exists but has no length getter, no
\* indexed entry and no cycles getter.
EmptyObject ==
  [kind |-> "object", length |-> Undefined, elems |-> <<>>,
   cached |-> FALSE, cycles |-> <<>>]

\* The value `undefined` where an object was expected (compose's early return)
UndefinedRef ==
  [kind |-> "undefined", length |-> Undefined, elems |-> <<>>,
   cached |-> FALSE, cycles |-> <<>>]

Permutation(arr) ==
  IF ~ValidatePermutationArray(arr) THEN EmptyObject
  ELSE [kind |-> "object", length |-> Len(arr), elems |-> arr,
        cached |-> FALSE, cycles |-> <<>>]

\* this[k]: the indexed entry stored under key k, undefined when there is none
Get(p, k) ==
  IF k # Undefined /\ (k - PERMUTATION_INDEX + 1) \in 1..Len(p.elems)
  THEN p.elems[k - PERMUTATION_INDEX + 1]
  ELSE Undefined

At(p, i) == IF i = Undefined THEN Undefined ELSE Get(p, i + PERMUTATION_INDEX)

\* for (var i = 0; i < n; ++i): the indices the loop visits, as a sequence
Upto(n) == IF n = Undefined \/ n < 1 THEN <<>> ELSE [k \in 1..n |-> k - 1]

\* ------------------------------------------------------------------------
\* Cycle decomposition
\* ------------------------------------------------------------------------
SeqRange(q) == {q[k] : k \in 1..Len(q)}

\* var j = perm[i]; while (j != i) { curr_cycle.push(j); ...; j = perm[j]; }
\* The loop's only control state is j.  When a value of j other than i comes
\* up a second time the loop repeats from there for ever and never returns
\* (perm[undefined] is undefined, so an undefined j is such a value).
RECURSIVE WalkCycle(_, _, _, _)
WalkCycle(perm, i, j, curr_cycle) ==
  IF j = i THEN [diverges |-> FALSE, cycle |-> curr_cycle]
  ELSE IF j \in SeqRange(curr_cycle) THEN [diverges |-> TRUE, cycle |-> curr_cycle]
  ELSE WalkCycle(perm, i, Get(perm, j), Append(curr_cycle, j))

\* getCycles without the already_used test
RECURSIVE CyclesFromIgnoringUsed(_, _, _, _)
CyclesFromIgnoringUsed(perm, i, already_used, cycles) ==
  IF ~JsLT(i, perm.length) THEN [diverges |-> FALSE, cycles |-> cycles]
  ELSE IF Get(perm, i) # i
  THEN LET w == WalkCycle(perm, i, Get(perm, i), <<i>>)
       IN  IF w.diverges THEN [diverges |-> TRUE, cycles |-> cycles]
           ELSE CyclesFromIgnoringUsed(perm, i + 1, already_used \cup SeqRange(w.cycle),
                                       Append(cycles, w.cycle))
  ELSE CyclesFromIgnoringUsed(perm, i + 1, already_used, cycles)

\* for (var i = 0; i < perm.length; ++i) { ... }
RECURSIVE CyclesFrom(_, _, _, _)
CyclesFrom(perm, i, already_used, cycles) ==
  IF ~JsLT(i, perm.length) THEN [diverges |-> FALSE, cycles |-> cycles]
  ELSE IF Get(perm, i) # i /\ i \notin already_used
  THEN LET w == WalkCycle(perm, i, Get(perm, i), <<i>>)
       IN  IF w.diverges THEN [diverges |-> TRUE, cycles |-> cycles]
           ELSE CyclesFrom(perm, i + 1, already_used \cup SeqRange(w.cycle),
                           Append(cycles, w.cycle))
  ELSE CyclesFrom(perm, i + 1, already_used, cycles)

GetCycles(perm) == CyclesFrom(perm, 0, {}, <<>>)

\* The `cycles` getter: computes on the first access, then returns the cache.
\* [diverges, cycles, obj]: obj is the object after the access.
CyclesGetter(p) ==
  IF p.cached THEN [diverges |-> FALSE, cycles |-> p.cycles, obj |-> p]
  ELSE LET g == GetCycles(p)
       IN  IF g.diverges THEN [diverges |-> TRUE, cycles |-> <<>>, obj |-> p]
           ELSE [diverges |-> FALSE, cycles |-> g.cycles,
                 obj |-> [p EXCEPT !.cached = TRUE, !.cycles = g.cycles]]

\* ------------------------------------------------------------------------
\* Character mapping
\* ------------------------------------------------------------------------
GetChar(i) ==
  IF JsGE(i, 0) /\ JsLE(i, 9) THEN FromCharCode(C0 + i)
  ELSE IF JsLE(i, MAX_ALLOWED_PERMUTATION_INDEX) THEN FromCharCode(CA + (i - 10))
  ELSE Undefined

\* c is a character (parseChar reads c.charCodeAt(0))
ParseChar(c) ==
  IF c >= C0 /\ c <= C9 THEN c - C0
  ELSE IF c >= CA /\ c <= CZ THEN (c + 10) - CA
  ELSE Undefined

\* ------------------------------------------------------------------------
\* Methods
\* ------------------------------------------------------------------------
ToString(p) ==
  JoinChars([k \in 1..p.length |-> GetChar(Get(p, PERMUTATION_INDEX + k - 1))])

\* [diverges, str, obj]
ToCycleString(p) ==
  LET g == CyclesGetter(p)
  IN  [diverges |-> g.diverges,
       str |-> JoinStrings([k \in 1..Len(g.cycles) |->
                 <<LParen>> \o JoinNumbers(g.cycles[k]) \o <<RParen>>]),
       obj |-> g.obj]

Clone(p) ==
  Permutation([k \in 1..p.length |-> Get(p, PERMUTATION_INDEX + k - 1)])

Compose(this, theta) ==
  IF theta.length # this.length THEN UndefinedRef
  ELSE Permutation([k \in 1..this.length |-> Get(this, Get(theta, k - 1))])

\* Permutation.equals runs `for (var i = 0; i < this.length; ++i)` with `this`
\* bound to the constructor function Permutation, whose length is the number
\* of its declared parameters.
FunctionLength == 1

Equals(left, right) ==
  \A i \in SeqRange(Upto(FunctionLength)) : ~(At(left, i) # At(right, i))

\* ------------------------------------------------------------------------
\* Construction from functions and strings
\* ------------------------------------------------------------------------
\* func is the function passed in, given by its values on 0..n-1
FromFunction(func, n) == Permutation([k \in 1..n |-> func[k - 1]])

GetIdentity(n) == FromFunction([i \in 0..(n - 1) |-> i + PERMUTATION_INDEX], n)

\* splitCycles: for every '(' at index i, in order, with j the index of the
\* first ')' after it, the text between them when j > 0 and j > i + 2
RECURSIVE SplitCyclesFrom(_, _, _)
SplitCyclesFrom(s, i, result) ==
  IF ~(i >= 0) THEN result
  ELSE LET j == IndexOfFrom(s, RParen, i)
           kept == IF j > 0 /\ j > i + 2
                   THEN Append(result, Substring(s, i + 1, j))
                   ELSE result
       IN  SplitCyclesFrom(s, IndexOfFrom(s, LParen, i + 1), kept)

SplitCycles(s) == SplitCyclesFrom(s, IndexOf(s, LParen), <<>>)

\* followCycles: for (var i = cycles.length - 1; i >= 0; --i) { ... }
RECURSIVE FollowCyclesFrom(_, _, _)
FollowCyclesFrom(cycles, i, value) ==
  IF ~(i >= 0) THEN value
  ELSE LET c == cycles[i + 1]
           index == IndexOf(c, value)
           next == IF index >= 0
                   THEN IF index < Len(c) - 1 THEN c[index + 2] ELSE c[1]
                   ELSE value
       IN  FollowCyclesFrom(cycles, i - 1, next)

\* followCycles going through the cycles from the first written to the last
RECURSIVE FollowCyclesFirstToLast(_, _)
FollowCyclesFirstToLast(cycles, char) ==
  IF cycles = <<>> THEN char
  ELSE FollowCyclesFirstToLast(Tail(cycles), FollowCyclesFrom(<<Head(cycles)>>, 0, char))

FollowCycles(cycles, char) == FollowCyclesFrom(cycles, Len(cycles) - 1, char)

\* getHighestChar: the running maximum over all characters of all cycles
RECURSIVE HighestOver(_, _)
HighestOver(chars, highest) ==
  IF chars = <<>> THEN highest
  ELSE LET curr_code == ParseChar(Head(chars))
       IN  HighestOver(Tail(chars),
                       IF JsGT(curr_code, highest) THEN curr_code ELSE highest)

GetHighestChar(cycles) == HighestOver(JoinStrings(cycles), 0)

\* The array fromCycleString builds before it constructs the Permutation.
\* n is Undefined when the caller passes no n.  The model keeps n <= 35, so
\* getChar(i) is a character and parseChar is applied to a character.
CycleStringArray(s, n) ==
  LET splits == SplitCycles(s)
      nn == IF n = Undefined THEN GetHighestChar(splits) ELSE n
  IN  [k \in 1..(nn + 1) |-> ParseChar(FollowCycles(splits, GetChar(k - 1)))]

FromCycleString(s, n) == Permutation(CycleStringArray(s, n))

\* The array fromString builds from a string without '('
FlatStringArray(s) ==
  LET max_char == HighestOver(s, 0)
  IN  [k \in 1..(max_char + 1) |->
         IF k - 1 < Len(s) THEN ParseChar(s[k]) ELSE k - 1]

FromString(s) ==
  IF IndexOf(s, LParen) >= 0 THEN FromCycleString(s, Undefined)
  ELSE Permutation(FlatStringArray(s))

\* ------------------------------------------------------------------------
\* Inputs
\* ------------------------------------------------------------------------
SeqsOver(S, maxLen) == UNION {[1..k -> S] : k \in 0..maxLen}

\* arrays of length k over 0..k: every bijection on 0..k-1, arrays with a
\* duplicate, and arrays of distinct values that use the value k
DenseArrays == UNION {[1..k -> 0..k] : k \in 0..MaxLen}

\* short arrays around the two ends of the allowed range
EdgeValues ==
  {-1, 0, 1, MAX_ALLOWED_PERMUTATION_INDEX - 1, MAX_ALLOWED_PERMUTATION_INDEX,
   MAX_ALLOWED_PERMUTATION_INDEX + 1}
EdgeArrays == SeqsOver(EdgeValues, MaxEdgeLen)

\* arrays that fix 0..HighBase-1 and continue with values from HighBase on
HighArrays ==
  {Upto(HighBase) \o t : t \in UNION {[1..k -> HighBase..(HighBase + k)] : k \in 1..MaxTail}}

Arrays == DenseArrays \cup EdgeArrays \cup HighArrays

PairArrays == UNION {[1..k -> 0..k] : k \in 0..MaxPairLen}

\* the functions handed to fromFunction, by their values on 0..n-1
Functions(k) == [0..(k - 1) -> 0..k]

CharInputs == (0 - MaxProbe)..(MAX_ALLOWED_PERMUTATION_INDEX + MaxProbe)
CharCodes == 0..127

FlatAlphabet == {C0, C0 + 1, C0 + 2, C0 + 3, CA, RParen}
FlatStrings == SeqsOver(FlatAlphabet, MaxFlatLen)

\* cycle strings: up to MaxGroups pieces, each a parenthesized group or a
\* stray character
GroupBodies == SeqsOver({C0, C0 + 1, C0 + 2}, 2)
                 \cup {q \in [1..3 -> {C0, C0 + 1, C0 + 2}] : Cardinality(SeqRange(q)) = 3}
Pieces == {<<LParen>> \o body \o <<RParen>> : body \in GroupBodies}
            \cup {<<LParen>>, <<RParen>>, <<C0 + 1>>}
RECURSIVE PieceStrings(_)
PieceStrings(k) ==
  IF k = 0 THEN {<<>>}
  ELSE LET shorter == PieceStrings(k - 1)
       IN  shorter \cup {q \o piece : q \in shorter, piece \in Pieces}
CycleStrings == {q \in PieceStrings(MaxGroups) : IndexOf(q, LParen) >= 0}

NOptions == {Undefined} \cup 0..MaxN

\* ------------------------------------------------------------------------
\* State: one call sequence of a client of the library
\* ------------------------------------------------------------------------
VARIABLES
  op,    \* the call made last
  x,     \* the Permutation the calls are made on
  y,     \* a second Permutation (the argument of equals and compose)
  r,     \* the object the last call returned
  a,     \* the array argument of the constructing call
  s,     \* the string argument or the string returned
  n,     \* the integer argument
  b,     \* the boolean returned by equals
  v,     \* the character or integer returned by getChar / parseChar
  w,     \* the result of converting v back
  cyc,   \* the array of cycles returned by the cycles getter
  hung   \* TRUE when the last call never returns

vars == <<op, x, y, r, a, s, n, b, v, w, cyc, hung>>

Init ==
  /\ op = "init"
  /\ x = UndefinedRef /\ y = UndefinedRef /\ r = UndefinedRef
  /\ a = <<>> /\ s = <<>> /\ n = Undefined
  /\ b = FALSE /\ v = Undefined /\ w = Undefined
  /\ cyc = <<>> /\ hung = FALSE

Constructed(p) == p.kind = "object" /\ p.length # Undefined

\* x was just built by a constructing call and construction succeeded
Built == op \in {"new", "fromFunction", "getIdentity"} /\ Constructed(x)

New ==
  /\ op = "init"
  /\ \E arr \in Arrays : a' = arr /\ x' = Permutation(arr)
  /\ op' = "new"
  /\ UNCHANGED <<y, r, s, n, b, v, w, cyc, hung>>

DoFromFunction ==
  /\ op = "init"
  /\ \E k \in 0..MaxPairLen : \E func \in Functions(k) :
        /\ n' = k /\ a' = [i \in 1..k |-> func[i - 1]]
        /\ x' = FromFunction(func, k)
  /\ op' = "fromFunction"
  /\ UNCHANGED <<y, r, s, b, v, w, cyc, hung>>

DoGetIdentity ==
  /\ op = "init"
  /\ \E k \in 0..MaxLen : n' = k /\ x' = GetIdentity(k)
  /\ op' = "getIdentity"
  /\ UNCHANGED <<y, r, a, s, b, v, w, cyc, hung>>

NewTheta ==
  /\ Built /\ x.length <= MaxPairLen
  /\ \E arr \in PairArrays \cup EdgeArrays :
        /\ Constructed(Permutation(arr))
        /\ y' = Permutation(arr)
  /\ op' = "theta"
  /\ UNCHANGED <<x, r, a, s, n, b, v, w, cyc, hung>>

DoEquals ==
  /\ op = "theta"
  /\ op' = "equals" /\ b' = Equals(x, y)
  /\ UNCHANGED <<x, y, r, a, s, n, v, w, cyc, hung>>

DoCompose ==
  /\ op = "theta"
  /\ op' = "compose" /\ r' = Compose(x, y)
  /\ UNCHANGED <<x, y, a, s, n, b, v, w, cyc, hung>>

DoClone ==
  /\ Built
  /\ op' = "clone" /\ r' = Clone(x)
  /\ UNCHANGED <<x, y, a, s, n, b, v, w, cyc, hung>>

DoToString ==
  /\ Built
  /\ op' = "toString" /\ s' = ToString(x)
  /\ UNCHANGED <<x, y, r, a, n, b, v, w, cyc, hung>>

\* fromString applied to the string toString or toCycleString returned
DoFromStringBack ==
  /\ op \in {"toString", "toCycleString"} /\ ~hung
  /\ op' = (IF op = "toString" THEN "toString.fromString"
            ELSE "toCycleString.fromString")
  /\ r' = FromString(s)
  /\ UNCHANGED <<x, y, a, s, n, b, v, w, cyc, hung>>

DoCycles ==
  /\ Built \/ (op = "cycles" /\ ~hung)
  /\ LET g == CyclesGetter(x)
     IN  /\ op' = "cycles" /\ hung' = g.diverges /\ cyc' = g.cycles /\ x' = g.obj
  /\ UNCHANGED <<y, r, a, s, n, b, v, w>>

DoToCycleString ==
  /\ Built \/ (op = "cycles" /\ ~hung)
  /\ LET g == ToCycleString(x)
     IN  /\ op' = "toCycleString" /\ hung' = g.diverges /\ s' = g.str /\ x' = g.obj
  /\ UNCHANGED <<y, r, a, n, b, v, w, cyc>>

DoGetChar ==
  /\ op = "init"
  /\ \E i \in CharInputs : n' = i /\ v' = GetChar(i)
  /\ op' = "getChar"
  /\ UNCHANGED <<x, y, r, a, s, b, w, cyc, hung>>

DoParseChar ==
  /\ op = "init"
  /\ \E c \in CharCodes : n' = c /\ v' = ParseChar(c)
  /\ op' = "parseChar"
  /\ UNCHANGED <<x, y, r, a, s, b, w, cyc, hung>>

\* the other conversion applied to what getChar / parseChar returned
DoConvertBack ==
  /\ op \in {"getChar", "parseChar"} /\ v # Undefined
  /\ op' = (IF op = "getChar" THEN "getChar.parseChar" ELSE "parseChar.getChar")
  /\ w' = (IF op = "getChar" THEN ParseChar(v) ELSE GetChar(v))
  /\ UNCHANGED <<x, y, r, a, s, n, b, v, cyc, hung>>

DoFromString ==
  /\ op = "init"
  /\ \E str \in FlatStrings \cup CycleStrings : s' = str /\ r' = FromString(str)
  /\ op' = "fromString"
  /\ UNCHANGED <<x, y, a, n, b, v, w, cyc, hung>>

DoFromCycleString ==
  /\ op = "init"
  /\ \E str \in CycleStrings : \E k \in NOptions :
        /\ s' = str /\ n' = k
        /\ a' = CycleStringArray(str, k)
        /\ r' = FromCycleString(str, k)
  /\ op' = "fromCycleString"
  /\ UNCHANGED <<x, y, b, v, w, cyc, hung>>

Next ==
  \/ New
  \/ DoFromFunction
  \/ DoGetIdentity
  \/ NewTheta
  \/ DoEquals
  \/ DoCompose
  \/ DoClone
  \/ DoToString
  \/ DoFromStringBack
  \/ DoCycles
  \/ DoToCycleString
  \/ DoGetChar
  \/ DoParseChar
  \/ DoConvertBack
  \/ DoFromString
  \/ DoFromCycleString

Spec == Init /\ [][Next]_vars

\* ------------------------------------------------------------------------
\* Properties
\* ------------------------------------------------------------------------
Domain(p) == PERMUTATION_INDEX..(PERMUTATION_INDEX + p.length - 1)

SameLengthAndEntries(p, q) ==
  /\ p.length = q.length
  /\ \A i \in 0..(p.length - 1) : At(p, i) = At(q, i)

\* C1: equals returns true exactly when the two Permutations have the same
\* length and the same entry at every index.
C1_EqualsIffSameLengthAndEntries ==
  op = "equals" => (b <=> SameLengthAndEntries(x, y))

ContainsDuplicate(arr) == Cardinality(SeqRange(arr)) < Len(arr)
EntryOutOfRange(arr) ==
  \E k \in 1..Len(arr) : arr[k] < PERMUTATION_INDEX \/ arr[k] > MAX_ALLOWED_PERMUTATION_INDEX

\* C2: construction from an array fails, storing no length and no entry, when
\* the array holds a duplicate or an entry outside [0, 35]; for every other
\* array it succeeds with length = values.length and at(i) = values[i].
C2_ConstructionContract ==
  op = "new" =>
    IF ContainsDuplicate(a) \/ EntryOutOfRange(a)
    THEN x.kind = "object" /\ x.length = Undefined /\ x.elems = <<>>
    ELSE /\ x.kind = "object" /\ x.length = Len(a)
         /\ \A i \in 0..(Len(a) - 1) : At(x, i) = a[i + 1]

C2_Witness ==
  /\ op = "new" /\ a = <<0, MAX_ALLOWED_PERMUTATION_INDEX + 1>>
  /\ x.length = Undefined /\ x.elems = <<>>

\* C3: compose of two Permutations of equal length never fails validation and
\* yields r of that length with r.at(i) = p.at(theta.at(i)); with unequal
\* lengths it yields no result.
C3_ComposeContract ==
  op = "compose" =>
    IF x.length = y.length
    THEN /\ Constructed(r) /\ r.length = x.length
         /\ \A i \in 0..(x.length - 1) : At(r, i) = At(x, At(y, i))
    ELSE r = UndefinedRef

\* C4: fromString(p.toString()) has the length of p and the entry of p at
\* every index, for every Permutation p, the empty one included.
C4_FlatRoundTrip ==
  op = "toString.fromString" => Constructed(r) /\ SameLengthAndEntries(r, x)

Occurrences(cycles, i) ==
  LET all == JoinStrings(cycles)
  IN  Cardinality({k \in 1..Len(all) : all[k] = i})

C6_CycleStringRoundTrip ==
  op = "toCycleString.fromString" =>
    /\ s = JoinStrings([k \in 1..Len(x.cycles) |->
             <<LParen>> \o [m \in 1..Len(x.cycles[k]) |-> GetChar(x.cycles[k][m])]
                        \o <<RParen>>])
    /\ \A i \in Domain(x) : At(x, i) # i => At(r, i) = At(x, i)

IsDigitOrLetter(c) == (c >= C0 /\ c <= C9) \/ (c >= CA /\ c <= CZ)

\* C7: getChar returns a character exactly for the integers of [0, 35],
\* parseChar returns an integer exactly for '0'-'9' and 'A'-'Z', and each
\* undoes the other there.
C7_CharMapping ==
  /\ op = "getChar" => (v # Undefined <=> n \in 0..MAX_ALLOWED_PERMUTATION_INDEX)
  /\ op = "parseChar" => (v # Undefined <=> IsDigitOrLetter(n))
  /\ op \in {"getChar.parseChar", "parseChar.getChar"} => w = n

\* The parenthesized groups of a string, described by position: a group opens
\* at each '(' and closes at the first ')' that follows it.
Closers(str, i) == {j \in i..Len(str) : str[j] = RParen}
Least(S) == CHOOSE m \in S : \A k \in S : m <= k
Greatest(S) == CHOOSE m \in S : \A k \in S : m >= k
KeptStarts(str) ==
  {i \in 1..Len(str) :
     /\ str[i] = LParen
     /\ Closers(str, i) # {}
     /\ Least(Closers(str, i)) - i - 1 >= 2}
RECURSIVE Ascending(_)
Ascending(S) == IF S = {} THEN <<>> ELSE <<Least(S)>> \o Ascending(S \ {Least(S)})
KeptGroups(str) ==
  LET starts == Ascending(KeptStarts(str))
  IN  [k \in 1..Len(starts) |->
         SubSeq(str, starts[k] + 1, Least(Closers(str, starts[k])) - 1)]
NextInGroup(g, ch) ==
  IF ch \in SeqRange(g)
  THEN LET at == Least({k \in 1..Len(g) : g[k] = ch})
       IN  g[(at % Len(g)) + 1]
  ELSE ch
RECURSIVE ThroughLastToFirst(_, _)
ThroughLastToFirst(groups, ch) ==
  IF groups = <<>> THEN ch
  ELSE ThroughLastToFirst(SubSeq(groups, 1, Len(groups) - 1),
                          NextInGroup(groups[Len(groups)], ch))
HighestIndex(groups) ==
  Greatest({0} \cup {ParseChar(ch) : ch \in {c \in SeqRange(JoinStrings(groups)) : IsDigitOrLetter(c)}})

\* C8: fromCycleString keeps the groups of at least 2 characters, takes n as
\* the highest index in a kept group when none is supplied, and builds an
\* array of length n + 1 whose entry i is i passed through the kept groups
\* from the last written to the first.
C8_FromCycleString ==
  op = "fromCycleString" =>
    LET groups == KeptGroups(s)
        nn == IF n = Undefined THEN HighestIndex(groups) ELSE n
    IN  /\ Len(a) = nn + 1
        /\ \A i \in 0..nn : a[i + 1] = ParseChar(ThroughLastToFirst(groups, GetChar(i)))

C8_Witness ==
  /\ op = "fromCycleString" /\ n = Undefined
  /\ s = <<LParen, C0, C0 + 1, RParen, LParen, C0 + 1, C0 + 2, RParen>>
  /\ a = <<1, 2, 0>>

IsBijection(p) ==
  /\ Cardinality(SeqRange(p.elems)) = p.length
  /\ SeqRange(p.elems) \subseteq Domain(p)

\* C9: every successfully constructed Permutation holds distinct values that
\* all lie in its own domain [PERMUTATION_INDEX, PERMUTATION_INDEX + length).
C9_BijectionOnDomain ==
  \A p \in {x, y, r} : Constructed(p) => IsBijection(p)

\* C10: the first access to cycles, and toCycleString, return for every
\* Permutation that construction accepted.
C10_CyclesReturns ==
  op \in {"cycles", "toCycleString"} => ~hung
====
